---- MODULE Spec2Model ----
(***************************************************************************)
(* Model of the Stmp3 server: the HTTP gateway of server/src/index.js      *)
(* (upload, job polling, analysis), the in-memory job registry with the    *)
(* background whisper subprocess of a local-mode upload, and the encrypted *)
(* credential store of services/keys.js.                                   *)
(*                                                                         *)
(* JavaScript strings whose characters matter (stdout chunks, the output   *)
(* file, error messages) are sequences of one-character strings.           *)
(***************************************************************************)
EXTENDS Integers, Sequences, FiniteSets, TLC

\* ------------------------------------------------------------------ bounds
MaxJobs == 2
MaxStderr == 1
MaxCalls == 2

VARIABLES
  alive,     \* the node process is running (FALSE after an uncaught failure)
  envMode,   \* process.env.WHISPER_MODE
  jobs,      \* the Map `jobs`: id -> {status, progress, result, error}
  bg,        \* per job: where its background work stands, and its subprocess
  last,      \* the request or stdout chunk the step just taken handled, and
             \* the HTTP response it wrote (NoEvent for any other step)
  envKeys,   \* the providers with a fallback key in process.env
  dbFile,    \* data/db.json: NoDb, or the keys object it holds
  dbData,    \* db.data.keys, the in-memory copy of the keys object
  calls,     \* the setKey / getKey calls in flight, by slot, each with the
             \* request that made it and how far that request has come
  kret,      \* what the setKey / getKey call that just completed returned
  lastSet,   \* history: per provider, the key of the last completed setKey
  writer     \* the file writer of the store: the write under way, the one
             \* waiting behind it, and the calls awaiting each

jvars == <<alive, envMode, jobs, bg>>
kvars == <<envKeys, dbFile, dbData, calls, kret, lastSet, writer>>
vars == <<alive, envMode, jobs, bg, last, envKeys, dbFile, dbData, calls, kret,
          lastSet, writer>>

\* ------------------------------------------------------------- JS values
Null == [t |-> "null", v |-> <<>>]
Str(s) == [t |-> "string", v |-> s]

Min(a, b) == IF a < b THEN a ELSE b

\* ------------------------------------------------------------ characters
Digits == {"0", "1", "2", "3", "4", "5", "6", "7", "8", "9"}

DigitVal(c) ==
  CASE c = "0" -> 0 [] c = "1" -> 1 [] c = "2" -> 2 [] c = "3" -> 3
    [] c = "4" -> 4 [] c = "5" -> 5 [] c = "6" -> 6 [] c = "7" -> 7
    [] c = "8" -> 8 [] c = "9" -> 9

\* parseInt(s, 10) of a string of decimal digits
RECURSIVE ParseInt(_)
ParseInt(s) ==
  IF s = <<>> THEN 0
  ELSE 10 * ParseInt(SubSeq(s, 1, Len(s) - 1)) + DigitVal(s[Len(s)])

\* String.prototype.trim: strips leading and trailing white space
WhiteSpace == {" ", "\n", "\t", "\r"}

RECURSIVE TrimStart(_)
TrimStart(s) ==
  IF s # <<>> /\ s[1] \in WhiteSpace THEN TrimStart(Tail(s)) ELSE s

RECURSIVE TrimEnd(_)
TrimEnd(s) ==
  IF s # <<>> /\ s[Len(s)] \in WhiteSpace
  THEN TrimEnd(SubSeq(s, 1, Len(s) - 1)) ELSE s

Trim(s) == TrimEnd(TrimStart(s))

\* d.toString().split(/\n+/).filter(Boolean): the non-empty pieces between
\* runs of newlines
RECURSIVE SplitFrom(_, _, _)
SplitFrom(s, i, cur) ==
  IF i > Len(s) THEN (IF cur = <<>> THEN <<>> ELSE <<cur>>)
  ELSE IF s[i] = "\n"
       THEN (IF cur = <<>> THEN <<>> ELSE <<cur>>) \o SplitFrom(s, i + 1, <<>>)
       ELSE SplitFrom(s, i + 1, Append(cur, s[i]))

SplitLines(d) == SplitFrom(d, 1, <<>>)

\* line.match(/PROGRESS (\d{1,3})/): the leftmost place where "PROGRESS "
\* is followed by a digit; the group takes up to three digits, greedily
ProgressWord == <<"P", "R", "O", "G", "R", "E", "S", "S", " ">>

MatchAt(line, i) ==
  /\ i + 9 <= Len(line)
  /\ SubSeq(line, i, i + 8) = ProgressWord
  /\ line[i + 9] \in Digits

MatchPositions(line) == {i \in 1..Len(line) : MatchAt(line, i)}

HasMatch(line) == MatchPositions(line) # {}

\* m[1]: the captured digits of the leftmost match
MatchGroup(line) ==
  LET i == CHOOSE p \in MatchPositions(line) :
             \A q \in MatchPositions(line) : p <= q
      k == CHOOSE n \in 1..3 :
             /\ i + 8 + n <= Len(line)
             /\ \A x \in 1..n : line[i + 8 + x] \in Digits
             /\ \A m \in (n + 1)..3 :
                  ~(/\ i + 8 + m <= Len(line)
                    /\ \A x \in 1..m : line[i + 8 + x] \in Digits)
  IN SubSeq(line, i + 9, i + 8 + k)

\* ------------------------------------------------------------ job records
NewJob == [status |-> "processing", progress |-> 0, result |-> Null, error |-> Null]

\* index.js 100-103: the progress write of one matching line
UpdateProgress(job, pct) ==
  IF job.status = "processing" THEN [job EXCEPT !.progress = pct] ELSE job

\* Pct without the clamp
PctUnclamped(group) == ParseInt(group)

\* index.js 99: Math.min(100, parseInt(m[1], 10))
Pct(group) == Min(100, ParseInt(group))

\* index.js 96-105: the loop over the lines of one chunk
RECURSIVE ApplyLines(_, _)
ApplyLines(job, lines) ==
  IF lines = <<>> THEN job
  ELSE LET line == Head(lines)
           next == IF HasMatch(line)
                   THEN UpdateProgress(job, Pct(MatchGroup(line)))
                   ELSE job
       IN ApplyLines(next, Tail(lines))

\* ------------------------------------------------- request and env values
\* A value of a JSON body field or of an environment variable: absent, or a
\* string
AUndef == [t |-> "undefined", v |-> ""]
AStr(s) == [t |-> "string", v |-> s]

\* JavaScript truthiness of such a value (!x is its negation)
Truthy(x) == x.t = "string" /\ x.v # ""

\* String.prototype.toLowerCase on the strings the model uses
ToLowerCase(s) ==
  CASE s = "LOCAL" -> "local"
    [] s = "Local" -> "local"
    [] s = "API" -> "api"
    [] s = "OpenAI" -> "openai"
    [] OTHER -> s

EnvModes == {AUndef, AStr("api"), AStr("local"), AStr("LOCAL")}

\* index.js 70: (process.env.WHISPER_MODE || 'api').toLowerCase()
Mode == ToLowerCase(IF Truthy(envMode) THEN envMode.v ELSE "api")

\* index.js 65
okMimes == {"audio/mpeg", "audio/mp3", "audio/wav", "audio/x-wav",
            "audio/wave", "audio/x-pn-wav"}

\* the MIME types uploads carry in the model
Mimes == {"audio/mpeg", "audio/wav", "audio/x-pn-wav", "audio/ogg", "AUDIO/WAV"}

\* ---------------------------------------------------------- HTTP responses
NoBody == [status |-> "none", progress |-> 0, result |-> Null, error |-> Null]

\* jobs.get(id) of an id the Map does not hold
NoJob == NoBody

\* jobs.get(id) is defined
Has(id) == id \in DOMAIN jobs /\ jobs[id] # NoJob

\* MimeAllowed letting every audio/* type through
MimeAllowedAnyAudio(mime) == mime \in okMimes \cup {"audio/ogg"}

\* index.js 66: okMimes.has(mime)
MimeAllowed(mime) == mime \in okMimes

NoEvent ==
  [route |-> "none", status |-> 0, hasFile |-> FALSE, mime |-> "", id |-> 0,
   provider |-> AUndef, text |-> AUndef, called |-> "none", prompt |-> <<>>,
   body |-> NoBody, chunk |-> <<>>, key |-> Null]

\* ------------------------------------------------------ background state
JobIds == 1..MaxJobs

\* the ids a poll may carry: every id randomUUID can return, and one it never does
PollIds == 1..(MaxJobs + 1)

NoFile == [t |-> "absent", v |-> <<>>]

\* contents the subprocess may leave in the output file
OutFiles ==
  { Str(<<"d", "o", "n", "e", " ", "t", "e", "x", "t", "\n">>),
    Str(<<" ", "\n">>) }

\* what a subprocess may do on exit: its exit code (-1 stands for the null
\* code of a process killed by a signal) and the output file it leaves
ExitOutcomes ==
  {[code |-> 0, file |-> f] : f \in OutFiles \cup {NoFile}}
    \cup {[code |-> c, file |-> NoFile] : c \in {1, -1}}

\* chunks the subprocess may write to stdout
StdoutChunks ==
  { <<"P","R","O","G","R","E","S","S"," ","5","0","\n">>,
    <<"P","R","O","G","R","E","S","S"," ","2","0">>,
    <<"P","R","O","G","R","E","S","S"," ","1","5","0","\n">>,
    <<"P","R","O","G","R","E","S","S"," ","1","2","3","4">>,
    <<"P","R","O","G","R","E","S","S"," ","2","0","\n","\n",
      "P","R","O","G","R","E","S","S"," ","5","0","\n">>,
    <<"x","P","R","O","G","R","E","S","S"," ","0","2","0","%">>,
    <<"p","r","o","g","r","e","s","s"," ","5">>,
    <<"P","R","O","G","R","E","S","S","\n","5","0">>,
    <<"h","e","l","l","o","\n">> }

\* chunks the subprocess may write to stderr
StderrChunks == { <<"T","r","a","c","e","b","a","c","k">> }

NoBg == [pc |-> "none", proc |-> "none", code |-> 0, file |-> NoFile,
         stderr |-> <<>>]

NewBg == [pc |-> "writeFile", proc |-> "none", code |-> 0, file |-> NoFile,
          stderr |-> <<>>]

\* template literal `exit code ${code}` (index.js 124)
ExitCodeMessage(code) ==
  <<"e","x","i","t"," ","c","o","d","e"," ">> \o
    (CASE code = -1 -> <<"n","u","l","l">>
       [] code = 0 -> <<"0">>
       [] code = 1 -> <<"1">>
       [] OTHER -> <<"?">>)

\* os.tmpdir()
TmpDir == <<"/", "t", "m", "p">>

\* the job id as text: randomUUID() in the code, the id's numeral here
JobIdText(j) == <<(<<"1", "2", "3", "4", "5", "6", "7", "8", "9">>)[j]>>

\* index.js 84: join(tmpdir(), `out-${jobId}.txt`)
OutPath(j) ==
  TmpDir \o <<"/", "o", "u", "t", "-">> \o JobIdText(j) \o <<".", "t", "x", "t">>

\* index.js 118-120: err.message of the readFile that found no output file
ReadErrorMessage(j) ==
  <<
    "E", "N", "O", "E", "N", "T", ":", " ", "n", "o", " ", "s", "u",
    "c", "h", " ", "f", "i", "l", "e", " ", "o", "r", " ", "d", "i",
    "r", "e", "c", "t", "o", "r", "y", ",", " ", "o", "p", "e", "n",
    " ", "'" >>
    \o OutPath(j) \o <<"'">>


\* ------------------------------------------------------ credential store
Slots == 1..MaxCalls

\* the property names the keys object is read and written under
StoreNames == {"openai", "google", "constructor", "__proto__"}

\* the providers setKey is called with in the model
SetProviders == {"openai", "constructor", "__proto__"}

\* one UTF-16 code unit that is a lone surrogate, and U+FFFD
LoneSurrogate == "<D800>"
Replacement == "<FFFD>"

\* the API keys the model stores
ApiKeys ==
  { <<"s", "k", "-", "1", "2", "3">>,
    <<"a", "b">>,
    <<"k", LoneSurrogate>>,
    <<"s", "k", "-", "1", "2", "3", "\n">> }

\* the initialization vectors crypto.randomBytes(16) yields in the model
IVs == {1, 2}

\* keys.js 10: process.env.SECRET_PASSPHRASE || 'dev-secret'
Secret == "dev-secret"

\* Buffer's UTF-8 encoding of a string: a character of the model is one
\* byte, except that a lone surrogate is written as U+FFFD (EF BF BD)
RECURSIVE Utf8Encode(_)
Utf8Encode(s) ==
  IF s = <<>> THEN <<>>
  ELSE (IF Head(s) \in {LoneSurrogate, Replacement}
        THEN <<"EF", "BF", "BD">> ELSE <<Head(s)>>) \o Utf8Encode(Tail(s))

\* Buffer.toString('utf8')
RECURSIVE Utf8Decode(_)
Utf8Decode(b) ==
  IF b = <<>> THEN <<>>
  ELSE IF Len(b) >= 3 /\ SubSeq(b, 1, 3) = <<"EF", "BF", "BD">>
       THEN <<Replacement>> \o Utf8Decode(SubSeq(b, 4, Len(b)))
       ELSE <<Head(b)>> \o Utf8Decode(Tail(b))

\* aes-256-cbc under the hash of the passphrase, symbolically: a ciphertext
\* opens only under the passphrase and the iv it was made with
NoData == [k |-> "", iv |-> 0, plain |-> <<>>]
Cipher(secret, iv, bytes) == [k |-> secret, iv |-> iv, plain |-> bytes]
CanDecipher(secret, iv, data) == data.k = secret /\ data.iv = iv

\* values a property of the keys object can have: no value, the string
\* `${ivHex}:${dataHex}`, or what Object.prototype supplies
JUndefined == [t |-> "undefined", iv |-> 0, data |-> NoData]
JFunction == [t |-> "function", iv |-> 0, data |-> NoData]
JObject == [t |-> "object", iv |-> 0, data |-> NoData]

\* keys.js 19-25
encrypt(text, iv) ==
  [t |-> "string", iv |-> iv, data |-> Cipher(Secret, iv, Utf8Encode(text))]

\* keys.js 27-35, for a payload that is a string
decrypt(payload) ==
  IF CanDecipher(Secret, payload.iv, payload.data)
  THEN Utf8Decode(payload.data.plain)
  ELSE <<"<garbage>">>

\* a keys object is given by its own properties (JUndefined: none)
EmptyKeys == [p \in StoreNames |-> JUndefined]

\* property names every plain object inherits from Object.prototype
InheritedNames == {"constructor", "toString", "valueOf", "hasOwnProperty"}

\* obj[name]: an own property, else the prototype chain
GetProp(obj, name) ==
  IF name = "__proto__" THEN JObject
  ELSE IF obj[name] # JUndefined THEN obj[name]
  ELSE IF name \in InheritedNames THEN JFunction
  ELSE JUndefined

\* obj[name] = val for a string val: the __proto__ setter ignores it
SetProp(obj, name, val) ==
  IF name = "__proto__" THEN obj ELSE [obj EXCEPT ![name] = val]

\* data/db.json: absent until the first write
NoDb == [t |-> "absent", keys |-> EmptyKeys]
DbFile(keys) == [t |-> "json", keys |-> keys]

\* lowdb Low.read: `const data = await adapter.read(); if (data) this.data = data`
ReadInto(data, snap) == IF snap.t = "json" THEN snap.keys ELSE data

\* line terminators, which `.` of a regular expression does not match
LineTerminators == {"\n", "\r"}

\* keys.js 48: key.replace(/.(?=.{4})/g, '*')
Mask(key) ==
  [i \in 1..Len(key) |->
     IF /\ key[i] \notin LineTerminators
        /\ i + 4 <= Len(key)
        /\ \A x \in 1..4 : key[i + x] \notin LineTerminators
     THEN "*" ELSE key[i]]

\* keys.js 45-49: getKey once db.read() has resolved
GetKeyReturn(keys, provider, masked) ==
  LET enc == GetProp(keys, provider) IN
    IF enc = JUndefined THEN [outcome |-> "returned", value |-> Null]
    ELSE IF enc.t # "string" THEN [outcome |-> "threw", value |-> Null]
    ELSE [outcome |-> "returned",
          value |-> Str(IF masked THEN Mask(decrypt(enc)) ELSE decrypt(enc))]

IdleCall ==
  [op |-> "idle", provider |-> "", key |-> <<>>, masked |-> FALSE,
   caller |-> "none", reqProvider |-> AUndef, text |-> AUndef, mime |-> "",
   pc |-> "idle", snap |-> NoDb]

NoRet == [op |-> "none", provider |-> "", masked |-> FALSE,
          outcome |-> "none", value |-> Null]

NoKey == Null

AllIdle == \A c \in Slots : calls[c].op = "idle"

\* the slot a new call is put in: the first one not in use
FreeSlot(c) ==
  calls[c].op = "idle" /\ \A d \in Slots : d < c => calls[d].op # "idle"

\* the writer db.write() hands the serialized data to: one write of the
\* file at a time; data handed over meanwhile waits, the latest replacing
\* what waited before, and is written next. `owner` is the call whose
\* write() found the writer free, `prev` the calls whose data is being
\* written after having waited, `next` the calls whose data waits.
NoWriter ==
  [locked |-> FALSE, data |-> EmptyKeys, owner |-> 0, prev |-> {},
   hasNext |-> FALSE, nextData |-> EmptyKeys, next |-> {}]

\* write(data) by call c
WriterWrite(w, c, data) ==
  IF ~w.locked
  THEN [w EXCEPT !.locked = TRUE, !.data = data, !.owner = c]
  ELSE [w EXCEPT !.hasNext = TRUE, !.nextData = data, !.next = @ \cup {c}]

\* the calls whose write() resolves when the write under way is finished
WriterResolves(w) == w.prev \cup (IF w.hasNext THEN {} ELSE {w.owner})

\* the writer once the write under way is finished
WriterAfter(w) ==
  IF w.hasNext
  THEN [w EXCEPT !.data = w.nextData, !.prev = w.next, !.hasNext = FALSE,
                 !.nextData = EmptyKeys, !.next = {}]
  ELSE NoWriter

\* keys.js 37-38: setKey is called and starts db.read()
SetKeyCall(c, provider, apiKey) ==
  /\ alive
  /\ calls[c].op = "idle"
  /\ calls' = [calls EXCEPT ![c] = [IdleCall EXCEPT !.op = "setKey",
                 !.provider = provider, !.key = apiKey, !.pc = "read"]]
  /\ kret' = NoRet
  /\ last' = NoEvent
  /\ UNCHANGED <<jvars, envKeys, dbFile, dbData, lastSet, writer>>

\* keys.js 43-44: getKey is called and starts db.read()
GetKeyCall(c, provider, masked) ==
  /\ alive
  /\ calls[c].op = "idle"
  /\ calls' = [calls EXCEPT ![c] = [IdleCall EXCEPT !.op = "getKey",
                 !.provider = provider, !.masked = masked, !.pc = "read"]]
  /\ kret' = NoRet
  /\ last' = NoEvent
  /\ UNCHANGED <<jvars, envKeys, dbFile, dbData, lastSet, writer>>

\* index.js 38-42: POST /api/keys answers 400 unless provider and apiKey are
\* both given, and else calls setKey(provider, apiKey)
KeysPost(c, provider, apiKey) ==
  /\ alive
  /\ calls[c].op = "idle"
  /\ IF ~Truthy(provider) \/ apiKey = Null \/ apiKey.v = <<>>
     THEN /\ last' = [NoEvent EXCEPT !.route = "keysPost",
                                     !.provider = provider, !.key = apiKey,
                                     !.status = 400]
          /\ calls' = calls
     ELSE /\ last' = NoEvent
          /\ calls' = [calls EXCEPT ![c] = [IdleCall EXCEPT !.op = "setKey",
                         !.provider = provider.v, !.key = apiKey.v,
                         !.caller = "keysPost", !.pc = "read"]]
  /\ kret' = NoRet
  /\ UNCHANGED <<jvars, envKeys, dbFile, dbData, lastSet, writer>>

\* index.js 49-52: GET /api/keys/:provider calls getKey(provider, true)
KeysGet(c, provider) ==
  /\ alive
  /\ calls[c].op = "idle"
  /\ calls' = [calls EXCEPT ![c] = [IdleCall EXCEPT !.op = "getKey",
                 !.provider = provider, !.masked = TRUE,
                 !.caller = "keysGet", !.pc = "read"]]
  /\ kret' = NoRet
  /\ last' = NoEvent
  /\ UNCHANGED <<jvars, envKeys, dbFile, dbData, lastSet, writer>>

\* the file system serves the read of db.read(): the call sees the file as
\* it is now
FsRead(c) ==
  /\ alive
  /\ calls[c].pc = "read"
  /\ calls' = [calls EXCEPT ![c].snap = dbFile, ![c].pc = "resume"]
  /\ kret' = NoRet
  /\ last' = NoEvent
  /\ UNCHANGED <<jvars, envKeys, dbFile, dbData, lastSet, writer>>

\* keys.js 38-40: db.read() resolves (db.data is replaced by what was read),
\* the entry is assigned and db.write() serializes db.data
SetKeyResume(c, iv) ==
  /\ alive
  /\ calls[c].op = "setKey"
  /\ calls[c].pc = "resume"
  /\ LET data == SetProp(ReadInto(dbData, calls[c].snap), calls[c].provider,
                         encrypt(calls[c].key, iv))
     IN /\ dbData' = data
        /\ writer' = WriterWrite(writer, c, data)
        /\ calls' = [calls EXCEPT ![c].pc = "write"]
  /\ kret' = NoRet
  /\ last' = NoEvent
  /\ UNCHANGED <<jvars, envKeys, dbFile, lastSet>>

\* keys.js 40: the write under way replaces the file; the write() of the
\* calls it served resolves and the data that waited, if any, is written next
FsWrite ==
  /\ alive
  /\ writer.locked
  /\ dbFile' = DbFile(writer.data)
  /\ calls' = [c \in Slots |->
                 IF c \in WriterResolves(writer)
                 THEN [calls[c] EXCEPT !.pc = "written"] ELSE calls[c]]
  /\ writer' = WriterAfter(writer)
  /\ kret' = NoRet
  /\ last' = NoEvent
  /\ UNCHANGED <<jvars, envKeys, dbData, lastSet>>

\* keys.js 41: setKey returns; for POST /api/keys, index.js 43 answers
\* {ok: true}
SetKeyReturn(c) ==
  /\ alive
  /\ calls[c].pc = "written"
  /\ calls' = [calls EXCEPT ![c] = IdleCall]
  /\ kret' = [NoRet EXCEPT !.op = "setKey", !.provider = calls[c].provider,
                           !.outcome = "returned"]
  /\ lastSet' = [lastSet EXCEPT ![calls[c].provider] = Str(calls[c].key)]
  /\ last' = IF calls[c].caller = "keysPost"
             THEN [NoEvent EXCEPT !.route = "keysPost",
                                  !.provider = AStr(calls[c].provider),
                                  !.key = Str(calls[c].key),
                                  !.status = 200]
             ELSE NoEvent
  /\ UNCHANGED <<jvars, envKeys, dbFile, dbData, writer>>

\* keys.js 44-50: db.read() resolves and getKey returns or throws; for the
\* GET route, index.js 53-56 answers with the returned value, or 500
GetKeyResume(c) ==
  /\ alive
  /\ calls[c].op = "getKey"
  /\ calls[c].caller \in {"none", "keysGet"}
  /\ calls[c].pc = "resume"
  /\ LET data == ReadInto(dbData, calls[c].snap)
         r == GetKeyReturn(data, calls[c].provider, calls[c].masked)
     IN /\ dbData' = data
        /\ kret' = [op |-> "getKey", provider |-> calls[c].provider,
                    masked |-> calls[c].masked, outcome |-> r.outcome,
                    value |-> r.value]
        /\ last' = IF calls[c].caller = "keysGet"
                   THEN [NoEvent EXCEPT
                           !.route = "keysGet",
                           !.provider = AStr(calls[c].provider),
                           !.status = IF r.outcome = "returned" THEN 200 ELSE 500,
                           !.key = r.value]
                   ELSE NoEvent
  /\ calls' = [calls EXCEPT ![c] = IdleCall]
  /\ UNCHANGED <<jvars, envKeys, dbFile, lastSet, writer>>

\* -------------------------------------------------------------------- Init
\* the registry and the store as the module's top-level code leaves them
\* (index.js 20, 25; keys.js 16)
InitState ==
  /\ alive = TRUE
  /\ jobs = [j \in JobIds |-> NoJob]
  /\ bg = [j \in JobIds |-> NoBg]
  /\ last = NoEvent
  /\ dbFile = NoDb
  /\ dbData = EmptyKeys
  /\ calls = [c \in Slots |-> IdleCall]
  /\ kret = NoRet
  /\ lastSet = [p \in StoreNames |-> NoKey]
  /\ writer = NoWriter

\* the environments the server is started in: every transcription mode,
\* and in API mode with and without OPENAI_API_KEY (whisper.js 68 reads it;
\* local mode never does)
Envs ==
  {[mode |-> m, keys |-> {}] : m \in EnvModes}
    \cup {[mode |-> m, keys |-> {"openai"}] : m \in {AUndef, AStr("api")}}

\* the job registry under every transcription mode
Init ==
  /\ InitState
  /\ \E e \in Envs : envMode = e.mode /\ envKeys = e.keys

\* ----------------------------------------------- POST /api/transcribe
\* index.js 63: no file
UploadNoFile ==
  /\ alive
  /\ last' = [NoEvent EXCEPT !.route = "upload", !.status = 400]
  /\ UNCHANGED <<alive, envMode, jobs, bg, kvars>>

\* index.js 64-68: the MIME type is not allow-listed
UploadBadMime(mime) ==
  /\ alive
  /\ ~MimeAllowed(mime)
  /\ last' = [NoEvent EXCEPT !.route = "upload", !.status = 400,
                             !.hasFile = TRUE, !.mime = mime]
  /\ UNCHANGED <<alive, envMode, jobs, bg, kvars>>

\* index.js 62-74: API mode; the handler calls createWhisperTranscription,
\* whose transcribeWithOpenAI (whisper.js 68) calls getKey('openai'), which
\* starts db.read(); nothing is answered yet
UploadApi(c, mime) ==
  /\ alive
  /\ calls[c].op = "idle"
  /\ MimeAllowed(mime)
  /\ Mode # "local"
  /\ calls' = [calls EXCEPT ![c] = [IdleCall EXCEPT !.op = "getKey",
                 !.provider = "openai", !.caller = "transcribe",
                 !.mime = mime, !.pc = "read"]]
  /\ last' = NoEvent
  /\ kret' = NoRet
  /\ UNCHANGED <<jvars, envKeys, dbFile, dbData, lastSet, writer>>

\* index.js 78-85: local mode registers a job, answers with its id and
\* starts writing the temporary input file. randomUUID never repeats an id:
\* the model hands out the ids in turn.
UploadLocal(mime) ==
  /\ alive
  /\ MimeAllowed(mime)
  /\ Mode = "local"
  /\ \E j \in JobIds : ~Has(j)
  /\ LET jobId == CHOOSE j \in JobIds :
                    ~Has(j) /\ \A k \in JobIds : ~Has(k) => j <= k
     IN /\ jobs' = [jobs EXCEPT ![jobId] = NewJob]
        /\ bg' = [bg EXCEPT ![jobId] = NewBg]
        /\ last' = [NoEvent EXCEPT !.route = "upload", !.status = 200,
                                   !.hasFile = TRUE, !.mime = mime,
                                   !.id = jobId]
  /\ UNCHANGED <<alive, envMode, kvars>>

\* index.js 85 and 127-130: writeFile rejects. The catch block answers on a
\* response that was already sent at line 80, so res.json throws inside the
\* catch and the handler's promise rejects. Depending on the Express and
\* Node versions that unhandled rejection ends the process or is swallowed.
WriteFileFails(j, crash) ==
  /\ alive
  /\ bg[j].pc = "writeFile"
  /\ bg' = [bg EXCEPT ![j].pc = "aborted"]
  /\ alive' = ~crash
  /\ last' = NoEvent
  /\ UNCHANGED <<envMode, jobs, kvars>>

\* index.js 85-126: writeFile resolves and the subprocess is spawned.
\*   "ok":         the handlers of lines 94-126 are registered
\*   "throws":     spawn throws synchronously, into the catch of line 127
\*                 (as for WriteFileFails)
\*   "errorEvent": spawn fails asynchronously (ENOENT, EACCES, EAGAIN): the
\*                 child emits 'error', which has no listener, and the
\*                 process ends with an uncaught exception
SpawnOutcomes == {"ok", "throws", "errorEvent"}

WriteFileDone(j, outcome, crash) ==
  /\ alive
  /\ bg[j].pc = "writeFile"
  /\ CASE outcome = "ok" ->
            /\ bg' = [bg EXCEPT ![j].pc = "listening", ![j].proc = "running"]
            /\ alive' = alive
       [] outcome = "throws" ->
            /\ bg' = [bg EXCEPT ![j].pc = "aborted"]
            /\ alive' = ~crash
       [] outcome = "errorEvent" ->
            /\ bg' = [bg EXCEPT ![j].pc = "spawnError"]
            /\ alive' = FALSE
  /\ last' = NoEvent
  /\ UNCHANGED <<envMode, jobs, kvars>>

\* index.js 94-106: a chunk arrives on the subprocess's stdout. The stream
\* delivers data until the child's 'close' event.
StdoutData(j, d) ==
  /\ alive
  /\ bg[j].pc = "listening"
  /\ jobs' = [jobs EXCEPT ![j] = ApplyLines(jobs[j], SplitLines(d))]
  /\ last' = [NoEvent EXCEPT !.route = "stdout", !.id = j, !.chunk = d]
  /\ UNCHANGED <<alive, envMode, bg, kvars>>

\* index.js 107-108: stderr is accumulated
StderrData(j, d) ==
  /\ alive
  /\ bg[j].pc = "listening"
  /\ Len(bg[j].stderr) < MaxStderr
  /\ bg' = [bg EXCEPT ![j].stderr = Append(@, d)]
  /\ last' = NoEvent
  /\ UNCHANGED <<alive, envMode, jobs, kvars>>

\* the subprocess ends (the environment's step): its exit code and the
\* output file it leaves behind
ProcExit(j, o) ==
  /\ alive
  /\ bg[j].proc = "running"
  /\ bg' = [bg EXCEPT ![j].proc = "exited", ![j].code = o.code,
                      ![j].file = o.file]
  /\ last' = NoEvent
  /\ UNCHANGED <<alive, envMode, jobs, kvars>>

\* String concatenation of the accumulated stderr chunks
RECURSIVE Concat(_)
Concat(chunks) ==
  IF chunks = <<>> THEN <<>> ELSE Head(chunks) \o Concat(Tail(chunks))

\* FailJob recording the message without changing the status
FailJobKeepsStatus(job, stderr, code) ==
  [job EXCEPT !.error = Str(IF Concat(stderr) # <<>> THEN Concat(stderr)
                            ELSE ExitCodeMessage(code))]

\* index.js 122-125: the job of a subprocess that exited non-zero
FailJob(job, stderr, code) ==
  [job EXCEPT !.status = "error",
              !.error = Str(IF Concat(stderr) # <<>> THEN Concat(stderr)
                            ELSE ExitCodeMessage(code))]

\* index.js 109-126: the 'close' handler up to its await. Exit code 0 starts
\* reading the output file; any other code fails the job.
Close(j) ==
  /\ alive
  /\ bg[j].pc = "listening"
  /\ bg[j].proc = "exited"
  /\ IF ~Has(j)
     THEN /\ bg' = [bg EXCEPT ![j].pc = "settled"]
          /\ jobs' = jobs
     ELSE IF bg[j].code = 0
     THEN /\ bg' = [bg EXCEPT ![j].pc = "readFile"]
          /\ jobs' = jobs
     ELSE /\ bg' = [bg EXCEPT ![j].pc = "settled"]
          /\ jobs' = [jobs EXCEPT ![j] = FailJob(jobs[j], bg[j].stderr, bg[j].code)]
  /\ last' = NoEvent
  /\ UNCHANGED <<alive, envMode, kvars>>

\* index.js 114-121: the job once readFile has settled
ReadResult(j, job, out) ==
  IF out # NoFile
  THEN [job EXCEPT !.status = "done", !.progress = 100,
                   !.result = Str(Trim(out.v))]
  ELSE [job EXCEPT !.status = "error", !.error = Str(ReadErrorMessage(j))]

\* index.js 113-121: readFile settles and the handler resumes
ReadFileDone(j) ==
  /\ alive
  /\ bg[j].pc = "readFile"
  /\ bg' = [bg EXCEPT ![j].pc = "settled"]
  /\ jobs' = [jobs EXCEPT ![j] = ReadResult(j, jobs[j], bg[j].file)]
  /\ last' = NoEvent
  /\ UNCHANGED <<alive, envMode, kvars>>

\* Poll dropping a finished job from the registry once it has been fetched
PollEvicts(id) ==
  /\ alive
  /\ last' = IF Has(id)
             THEN [NoEvent EXCEPT !.route = "poll", !.status = 200, !.id = id,
                                  !.body = jobs[id]]
             ELSE [NoEvent EXCEPT !.route = "poll", !.status = 404, !.id = id]
  /\ jobs' = IF Has(id) /\ jobs[id].status # "processing"
             THEN [jobs EXCEPT ![id] = NoJob] ELSE jobs
  /\ UNCHANGED <<alive, envMode, bg, kvars>>

\* Poll registering a job for an id it does not know
PollCreates(id) ==
  /\ alive
  /\ last' = IF Has(id)
             THEN [NoEvent EXCEPT !.route = "poll", !.status = 200, !.id = id,
                                  !.body = jobs[id]]
             ELSE [NoEvent EXCEPT !.route = "poll", !.status = 404, !.id = id]
  /\ jobs' = IF id \in JobIds /\ ~Has(id)
             THEN [jobs EXCEPT ![id] = NewJob] ELSE jobs
  /\ UNCHANGED <<alive, envMode, bg, kvars>>

\* ------------------------------------------- GET /api/transcribe/:jobId
\* index.js 134-138
Poll(id) ==
  /\ alive
  /\ last' = IF Has(id)
             THEN [NoEvent EXCEPT !.route = "poll", !.status = 200, !.id = id,
                                  !.body = jobs[id]]
             ELSE [NoEvent EXCEPT !.route = "poll", !.status = 404, !.id = id]
  /\ UNCHANGED <<alive, envMode, jobs, bg, kvars>>

\* ------------------------------------------------------ POST /api/analyze
\* the provider and text fields request bodies carry in the model
AnalyzeProviders ==
  {AUndef, AStr(""), AStr("openai"), AStr("google"), AStr("unknown"),
   AStr("OpenAI")}

AnalyzeTexts == {AUndef, AStr(""), AStr("hello")}

\* services/prompt.js: the fixed note-making prefix is put before the text
addNotePrefix(text) == <<"note-prefix", text>>

\* AdapterFor comparing the provider without regard to case
AdapterForAnyCase(provider) ==
  IF ToLowerCase(provider) = "openai" THEN "openai"
  ELSE IF ToLowerCase(provider) = "google" THEN "google"
  ELSE "none"

\* index.js 147-155: the adapter the provider selects ("none": unknown)
AdapterFor(provider) ==
  IF provider = "openai" THEN "openai"
  ELSE IF provider = "google" THEN "google"
  ELSE "none"

\* openai.js 5-7, google.js 5-6: `(await getKey(p)) || process.env...` and
\* `if (!key) throw`: whether the adapter finds a key to call its API with
AdapterHasKey(keys, provider) ==
  LET r == GetKeyReturn(keys, provider, FALSE) IN
    /\ r.outcome = "returned"
    /\ \/ (r.value # Null /\ r.value.v # <<>>)
       \/ provider \in envKeys

\* the answer of a request that called an adapter
AdapterResponse(call, status) ==
  IF call.caller = "transcribe"
  THEN [NoEvent EXCEPT !.route = "upload", !.status = status,
                       !.hasFile = TRUE, !.mime = call.mime,
                       !.called = "whisper"]
  ELSE [NoEvent EXCEPT !.route = "analyze", !.status = status,
                       !.provider = call.reqProvider, !.text = call.text,
                       !.called = call.provider,
                       !.prompt = addNotePrefix(call.text.v)]

\* index.js 141-152: /api/analyze answers 400 for a missing field or an
\* unknown provider; else it calls the provider's adapter, whose getKey
\* (openai.js 5, google.js 5) starts db.read(); nothing is answered yet
Analyze(c, provider, text) ==
  /\ alive
  /\ calls[c].op = "idle"
  /\ LET base == [NoEvent EXCEPT !.route = "analyze", !.provider = provider,
                                !.text = text]
         adapter == AdapterFor(provider.v)
     IN IF ~Truthy(provider) \/ ~Truthy(text) \/ adapter = "none"
        THEN /\ last' = [base EXCEPT !.status = 400]
             /\ calls' = calls
        ELSE /\ last' = NoEvent
             /\ calls' = [calls EXCEPT ![c] = [IdleCall EXCEPT !.op = "getKey",
                            !.provider = adapter, !.caller = "analyze",
                            !.reqProvider = provider, !.text = text,
                            !.pc = "read"]]
  /\ kret' = NoRet
  /\ UNCHANGED <<jvars, envKeys, dbFile, dbData, lastSet, writer>>

\* whisper.js 68-69, openai.js 5-6, google.js 5-6: the adapter's getKey
\* resolves (db.data is replaced by what was read); without a stored or an
\* environment key the adapter throws and the route answers 500 (index.js
\* 127-130, 156-158); else the adapter goes on to its next await
AdapterResume(c) ==
  /\ alive
  /\ calls[c].op = "getKey"
  /\ calls[c].caller \in {"transcribe", "analyze"}
  /\ calls[c].pc = "resume"
  /\ LET data == ReadInto(dbData, calls[c].snap) IN
       /\ dbData' = data
       /\ IF AdapterHasKey(data, calls[c].provider)
          THEN /\ calls' = [calls EXCEPT ![c].snap = NoDb,
                              ![c].pc = IF calls[c].caller = "transcribe"
                                        THEN "toFile" ELSE "remote"]
               /\ last' = NoEvent
          ELSE /\ calls' = [calls EXCEPT ![c] = IdleCall]
               /\ last' = AdapterResponse(calls[c], 500)
  /\ kret' = NoRet
  /\ UNCHANGED <<jvars, envKeys, dbFile, lastSet, writer>>

\* whisper.js 72: OpenAI.toFile(fileBuffer, filename) resolves and the
\* transcription request is sent
ToFileDone(c) ==
  /\ alive
  /\ calls[c].pc = "toFile"
  /\ calls' = [calls EXCEPT ![c].pc = "remote"]
  /\ last' = NoEvent
  /\ kret' = NoRet
  /\ UNCHANGED <<jvars, envKeys, dbFile, dbData, lastSet, writer>>

\* whisper.js 73-82, openai.js 10-19, google.js 18-22: the remote API answers
\* (ok) or the request fails; the route answers 200 (index.js 75, 149, 153)
\* or 500 (index.js 127-130, 156-158)
RemoteDone(c, ok) ==
  /\ alive
  /\ calls[c].pc = "remote"
  /\ calls' = [calls EXCEPT ![c] = IdleCall]
  /\ last' = AdapterResponse(calls[c], IF ok THEN 200 ELSE 500)
  /\ kret' = NoRet
  /\ UNCHANGED <<jvars, envKeys, dbFile, dbData, lastSet, writer>>

\* -------------------------------------------------------------------- Next
Next ==
  \/ UploadNoFile
  \/ \E mime \in Mimes : UploadBadMime(mime)
  \/ \E c \in Slots, mime \in Mimes : FreeSlot(c) /\ UploadApi(c, mime)
  \/ \E c \in Slots : FsRead(c)
  \/ \E c \in Slots : AdapterResume(c)
  \/ \E c \in Slots : ToFileDone(c)
  \/ \E c \in Slots, ok \in BOOLEAN : RemoteDone(c, ok)
  \/ \E mime \in Mimes : UploadLocal(mime)
  \/ \E j \in JobIds, crash \in BOOLEAN : WriteFileFails(j, crash)
  \/ \E j \in JobIds, o \in SpawnOutcomes, crash \in BOOLEAN :
       WriteFileDone(j, o, crash)
  \/ \E j \in JobIds, d \in StdoutChunks : StdoutData(j, d)
  \/ \E j \in JobIds, d \in StderrChunks : StderrData(j, d)
  \/ \E j \in JobIds, o \in ExitOutcomes : ProcExit(j, o)
  \/ \E j \in JobIds : Close(j)
  \/ \E j \in JobIds : ReadFileDone(j)
  \/ \E id \in PollIds : Poll(id)

Spec == Init /\ [][Next]_vars

\* the credential store, one call at a time: every call is awaited before
\* the next is made
InitKeys ==
  /\ InitState
  /\ envMode = AUndef
  /\ envKeys = {}

NextKeys ==
  \/ \E p \in SetProviders, k \in ApiKeys : AllIdle /\ SetKeyCall(1, p, k)
  \/ \E p \in StoreNames, m \in BOOLEAN : AllIdle /\ GetKeyCall(1, p, m)
  \/ \E p \in StoreNames : AllIdle /\ KeysGet(1, p)
  \/ \E c \in Slots : FsRead(c)
  \/ \E c \in Slots, iv \in IVs : SetKeyResume(c, iv)
  \/ FsWrite
  \/ \E c \in Slots : SetKeyReturn(c)
  \/ \E c \in Slots : GetKeyResume(c)

KeySpec == InitKeys /\ [][NextKeys]_vars

\* the credential store under POST /api/keys requests that overlap: a
\* request is served while another's setKey awaits its read or its write.
\* Requests in flight together name different providers.
PostProviders == {AUndef, AStr("openai"), AStr("google")}

PostKeys == {Null, Str(<<"s", "k", "-", "1", "2", "3">>), Str(<<"a", "b">>)}

\* no call in flight is for this provider
NotInFlight(provider) ==
  \A d \in Slots : calls[d].op = "idle" \/ calls[d].provider # provider.v

InitRace ==
  /\ InitState
  /\ envMode = AUndef
  /\ envKeys = {}

NextRace ==
  \/ \E c \in Slots, p \in PostProviders, k \in PostKeys :
       NotInFlight(p) /\ KeysPost(c, p, k)
  \/ \E c \in Slots : FsRead(c)
  \/ \E c \in Slots, iv \in IVs : SetKeyResume(c, iv)
  \/ FsWrite
  \/ \E c \in Slots : SetKeyReturn(c)

RaceSpec == InitRace /\ [][NextRace]_vars

\* the requests that call a remote adapter (analysis, API-mode upload),
\* served while other such requests and POST /api/keys requests are in
\* flight
\* the upload and the key-saving requests made alongside
AdapterMimes == {"audio/mpeg"}
AdapterPostProviders == {AStr("openai")}
AdapterPostKeys == {Str(<<"s", "k", "-", "1", "2", "3">>)}

\* started in API mode, without fallback keys in the environment or with
\* both
InitAdapters ==
  /\ InitState
  /\ envMode = AUndef
  /\ envKeys \in {{}, {"openai", "google"}}

NextAdapters ==
  \/ \E c \in Slots, p \in AnalyzeProviders, t \in AnalyzeTexts :
       FreeSlot(c) /\ Analyze(c, p, t)
  \/ \E c \in Slots, mime \in AdapterMimes :
       FreeSlot(c) /\ UploadApi(c, mime)
  \/ \E c \in Slots, p \in AdapterPostProviders, k \in AdapterPostKeys :
       FreeSlot(c) /\ KeysPost(c, p, k)
  \/ \E c \in Slots : FsRead(c)
  \/ \E c \in Slots : AdapterResume(c)
  \/ \E c \in Slots : ToFileDone(c)
  \/ \E c \in Slots, ok \in BOOLEAN : RemoteDone(c, ok)
  \/ \E c \in Slots, iv \in IVs : SetKeyResume(c, iv)
  \/ FsWrite
  \/ \E c \in Slots : SetKeyReturn(c)

AdapterSpec == InitAdapters /\ [][NextAdapters]_vars

\* ================================================================ claims

\* C1: while a job is processing its progress never decreases, whatever
\* PROGRESS values the subprocess writes.
C1_ProgressMonotone ==
  [][\A j \in JobIds :
       (jobs[j].status = "processing" /\ jobs'[j].status = "processing")
         => jobs'[j].progress >= jobs[j].progress]_vars

\* C2: done and error are terminal: once a job is done or failed, no step
\* changes its status, progress, result or error.
C2_Terminal ==
  [][\A j \in JobIds :
       jobs[j].status \in {"done", "error"} => jobs'[j] = jobs[j]]_vars

\* a finished job has just been polled while another job has failed
C2_Witness ==
  \E j, k \in JobIds :
    /\ jobs[j].status = "done"
    /\ jobs[k].status = "error"
    /\ last.route = "poll" /\ last.id = j /\ last.body = jobs[j]

\* a job whose background work has failed and has nothing left to run
BgFailed(j) ==
  \/ bg[j].pc \in {"aborted", "spawnError"}
  \/ bg[j].pc = "settled" /\ (bg[j].code # 0 \/ bg[j].file = NoFile)

\* C3: a job whose background work failed (input file not written, spawn
\* failed, non-zero exit, unreadable output) has status error and an error
\* message; it is not left processing.
C3_FailureRecorded ==
  \A j \in JobIds :
    BgFailed(j) => jobs[j].status = "error" /\ jobs[j].error # Null

\* C4: the job of an accepted local upload is first processing at 0; once
\* its subprocess has exited 0 leaving a readable output file, the job is
\* done at 100 with the trimmed file as result, or the handlers that will
\* make it so are still to run on the live server.
C4_EndToEnd ==
  /\ (last.route = "upload" /\ last.status = 200 /\ last.id # 0)
       => (jobs[last.id].status = "processing" /\ jobs[last.id].progress = 0)
  /\ \A j \in JobIds :
       (bg[j].proc = "exited" /\ bg[j].code = 0 /\ bg[j].file # NoFile)
         => \/ /\ jobs[j].status = "done"
               /\ jobs[j].progress = 100
               /\ jobs[j].result = Str(Trim(bg[j].file.v))
            \/ alive /\ bg[j].pc \in {"listening", "readFile"}

\* C5: a result is present only in a done job and an error only in a failed
\* one.
C5_ResultErrorPresence ==
  \A j \in JobIds :
    Has(j) =>
      /\ jobs[j].result # Null => jobs[j].status = "done"
      /\ jobs[j].error # Null => jobs[j].status = "error"

\* one job is done with a result, another failed with a message
C5_Witness ==
  \E j, k \in JobIds :
    /\ jobs[j].status = "done" /\ jobs[j].result # Null
    /\ jobs[k].status = "error" /\ jobs[k].error # Null

\* the number a string of at most three decimal digits denotes
NumeralValue(ds) ==
  LET n == Len(ds) IN
    (IF n >= 1 THEN DigitVal(ds[n]) ELSE 0)
      + (IF n >= 2 THEN 10 * DigitVal(ds[n - 1]) ELSE 0)
      + (IF n >= 3 THEN 100 * DigitVal(ds[n - 2]) ELSE 0)

\* a chunk without its final newline, if it has one
Chomp(d) ==
  IF d # <<>> /\ d[Len(d)] = "\n" THEN SubSeq(d, 1, Len(d) - 1) ELSE d

\* the chunk is one line "PROGRESS <n>" with n of one to three digits
IsProgressLine(d) ==
  /\ Len(Chomp(d)) \in 10..12
  /\ SubSeq(Chomp(d), 1, 9) = ProgressWord
  /\ \A i \in 10..Len(Chomp(d)) : Chomp(d)[i] \in Digits

\* the chunk nowhere has "PROGRESS " followed by a digit
NoProgressText(d) ==
  \A i \in 1..Len(d) :
    ~(i + 9 <= Len(d) /\ d[i + 9] \in Digits
        /\ \A x \in 1..9 : d[i + x - 1] = ProgressWord[x])

\* C6: progress always lies in 0..100; a stdout line "PROGRESS <n>" stores
\* min(100, n), and a chunk with no such text leaves progress as it was.
C6_ProgressClamped ==
  /\ [](\A j \in JobIds : Has(j) => jobs[j].progress \in 0..100)
  /\ [][last'.route = "stdout" =>
          LET j == last'.id
              d == last'.chunk
              n == NumeralValue(SubSeq(Chomp(d), 10, Len(Chomp(d))))
          IN /\ IsProgressLine(d) =>
                  jobs'[j].progress = (IF n > 100 THEN 100 ELSE n)
             /\ NoProgressText(d) => jobs'[j].progress = jobs[j].progress]_vars

\* "PROGRESS 150" has just been handled and left the job at 100
C6_Witness ==
  /\ last.route = "stdout"
  /\ last.chunk = <<"P","R","O","G","R","E","S","S"," ","1","5","0","\n">>
  /\ jobs[last.id].progress = 100
  /\ jobs[last.id].status = "processing"

\* C7: an upload whose MIME type is not allow-listed is answered 400 in
\* either mode, with no adapter call, no new job and no subprocess.
C7_BadMimeRejected ==
  [][(last'.route = "upload" /\ last'.hasFile /\ last'.mime \notin okMimes)
       => /\ last'.status = 400
          /\ last'.called = "none"
          /\ jobs' = jobs
          /\ bg' = bg]_vars

\* in local mode, with a job running, a non-listed type was just refused
C7_Witness ==
  /\ last.route = "upload" /\ last.hasFile /\ last.mime = "audio/ogg"
  /\ last.status = 400
  /\ Mode = "local"
  /\ \E j \in JobIds : Has(j) /\ bg[j].proc = "running"

\* C8: a poll changes nothing in the registry and is answered 404 exactly
\* when the id is not in it; an id once registered stays registered.
C8_PollUnknown ==
  [][/\ last'.route = "poll" =>
          /\ jobs' = jobs
          /\ bg' = bg
          /\ (last'.status = 404) <=> ~Has(last'.id)
     /\ \A j \in JobIds : Has(j) => jobs'[j] # NoJob]_vars

\* an unknown id was just answered 404 while the registry holds a job
C8_Witness ==
  /\ last.route = "poll" /\ last.status = 404 /\ ~Has(last.id)
  /\ \E j \in JobIds : Has(j)

\* C9: /api/analyze answers 400 without an adapter call unless the provider
\* is exactly 'openai' or 'google'; an adapter is called only with provider
\* and text both non-empty, and it is the provider's own.
C9_AnalyzeProvider ==
  last.route = "analyze" =>
    /\ ~(last.provider.t = "string" /\ last.provider.v \in {"openai", "google"})
         => (last.status = 400 /\ last.called = "none")
    /\ last.called # "none" =>
         /\ Truthy(last.provider) /\ Truthy(last.text)
         /\ last.provider.v \in {"openai", "google"}
         /\ last.called = last.provider.v

\* provider 'unknown' with a text was just answered 400
C9_Witness ==
  /\ last.route = "analyze"
  /\ last.provider = AStr("unknown") /\ Truthy(last.text)
  /\ last.status = 400 /\ last.called = "none"

\* C10: getKey(provider, masked=false) returns the key of the most recent
\* completed setKey for that provider, and null for a provider never set;
\* it does not fail.
C10_RoundTrip ==
  (kret.op = "getKey" /\ ~kret.masked) =>
    /\ kret.outcome = "returned"
    /\ kret.value = lastSet[kret.provider]

\* the key the store holds for a provider: the entry is the provider's own
\* and a payload string
HasStoredKey(p) == p \in StoreNames /\ dbData[p].t = "string"
StoredKey(p) == decrypt(dbData[p])

\* a key with all but its last four characters replaced by '*'
AllButLastFour(key) ==
  [i \in 1..Len(key) |-> IF i <= Len(key) - 4 THEN "*" ELSE key[i]]

\* C11: for a stored key of more than four characters, getKey(provider,
\* true) returns a string as long as the key, '*' in all but its last four
\* places and the key's last four characters after them; GET
\* /api/keys/:provider answers with that string, never with the key itself.
C11_Masked ==
  /\ (/\ kret.op = "getKey" /\ kret.masked
      /\ HasStoredKey(kret.provider)
      /\ Len(StoredKey(kret.provider)) > 4)
       => /\ kret.outcome = "returned"
          /\ kret.value = Str(AllButLastFour(StoredKey(kret.provider)))
  /\ (/\ last.route = "keysGet"
      /\ HasStoredKey(last.provider.v)
      /\ Len(StoredKey(last.provider.v)) > 4)
       => /\ last.status = 200
          /\ last.key = Str(AllButLastFour(StoredKey(last.provider.v)))
          /\ last.key # Str(StoredKey(last.provider.v))

\* the key data/db.json holds for a provider
HasFileKey(p) == dbFile.t = "json" /\ dbFile.keys[p].t = "string"
FileKey(p) == decrypt(dbFile.keys[p])

\* C12: setKey calls for different providers that are in flight together
\* lose no update: once all calls have returned, the store holds for every
\* provider the key of the last setKey completed for it, so both new keys
\* are there and no other credential was changed or removed.
C12_NoLostUpdate ==
  AllIdle =>
    \A p \in StoreNames :
      lastSet[p] # NoKey => (HasFileKey(p) /\ FileKey(p) = lastSet[p].v)

====
